---- MODULE Spec2Model ----
(***************************************************************************)
(* Model of github.com/ruesier/iterator: the channel iterator built by     *)
(* NewChannelIterator (src/channel.go), the worker pool built by MapAsync  *)
(* (src/unnamed/part_002), and the iterators of src/iterator.go drained by *)
(* ToSlice.                                                                *)
(*                                                                         *)
(* Goroutines are processes; an unbuffered channel operation is a          *)
(* rendezvous, so a send and the receive that takes it are one step.  A    *)
(* select with several ready cases takes any of them.                      *)
(***************************************************************************)
EXTENDS Integers, Sequences, FiniteSets, Bags, TLC

----------------------------------------------------------------------------
(* Bounds of the model *)

\* most generators handed to NewChannelIterator
MaxProducers == 2
\* most Send/SendErr calls made by all generators together
MaxItems == 3
\* most Next() calls the consumer makes after Next() has returned false
MaxNextAfterEnd == 1
\* most Send/SendErr calls made by all generators together where fairness is
\* assumed (FairBridge)
MaxFairItems == 2

----------------------------------------------------------------------------
(* Values *)

NoErr == "nil"
Values == {1, 2}
Errors == {"e1"}
\* the zero value of the element type
Zero == 0
\* what ctx.Err() is after cancel(), and what a cancelled parent may report
Canceled == "context canceled"
ParentErrs == {Canceled, "context deadline exceeded"}

SeqsUpTo(S, n) == UNION {[1..k -> S] : k \in 0..n}

RECURSIVE SumLen(_)
SumLen(ss) == IF ss = <<>> THEN 0 ELSE Len(Head(ss)) + SumLen(Tail(ss))

RECURSIVE SeqToBag(_)
SeqToBag(s) == IF s = <<>> THEN EmptyBag ELSE SetToBag({Head(s)}) (+) SeqToBag(Tail(s))

IsPrefix(s, t) == Len(s) <= Len(t) /\ SubSeq(t, 1, Len(s)) = s

----------------------------------------------------------------------------
(* The consumer of the iterator under test *)

VARIABLES
    kind,         \* the Iterator being drained: "Empty", "channelIter", "receiveIter",
                  \* "Generator", "Chain", "Slice", "Combine", "FilterMap"
    consumer,     \* "idle", or inside Next: "select" (channelIter), "range" (receiveIter)
    lastNext,     \* result of the last completed Next(): "none", "true", "false"
    got,          \* Get() after every Next() that returned true
    afterEnd      \* Next() calls made after a Next() returned false

cvars == <<kind, consumer, lastNext, got, afterEnd>>

ConsumerInit == consumer = "idle" /\ lastNext = "none" /\ got = <<>> /\ afterEnd = 0

----------------------------------------------------------------------------
(* NewChannelIterator: state *)

VARIABLES
    generators,   \* the generator functions: each the sequence of calls it makes
    ctxDone,      \* ci.ctx.Done() is closed
    ctxErr,       \* ci.ctx.Err()
    parentDone,   \* the caller's _ctx has been cancelled
    cClosed,      \* ci.c is closed
    cCloses,      \* number of close(ci.c) executed
    item,         \* ci.item
    wg,           \* the WaitGroup counter
    gen,          \* per generator goroutine: idx of its next call, stop once it gave
                  \* up after a cancelled send, ret once the goroutine returned
    closerDone,   \* the wg.Wait goroutine has closed the channel
    ignored       \* some generator went on after a send reported cancelled

bvars == <<generators, ctxDone, ctxErr, parentDone, cClosed, cCloses, item,
           wg, gen, closerDone, ignored>>

\* a call a generator makes on its Channel
Calls == [op : {"Send"}, arg : Values] \cup [op : {"SendErr"}, arg : Errors]

\* faulty variant: Send loses its argument
Mut_Send(e) == [Data |-> Zero, Err |-> NoErr]

\* Send(e) sends item{Data: e}; SendErr(e) sends item{Err: e}
Send(e) == [Data |-> e, Err |-> NoErr]
SendErr(e) == [Data |-> Zero, Err |-> e]
ItemOf(call) == IF call.op = "Send" THEN Send(call.arg) ELSE SendErr(call.arg)

\* the lists of k generators that make at most b calls together
RECURSIVE ListsOf(_, _)
ListsOf(k, b) ==
    IF k = 0 THEN {<<>>}
    ELSE UNION {{<<s>> \o rest : rest \in ListsOf(k - 1, b - Len(s))} :
                  s \in SeqsUpTo(Calls, b)}

GeneratorLists == UNION {ListsOf(k, MaxItems) : k \in 0..MaxProducers}

Producers == 1..Len(generators)

\* generator p is inside Send/SendErr, blocked in its select
InSend(p) == ~gen[p].ret /\ ~gen[p].stop /\ gen[p].idx <= Len(generators[p])

\* generator p's function has returned, its goroutine has still to finish
AtReturn(p) == ~gen[p].ret /\ (gen[p].stop \/ gen[p].idx > Len(generators[p]))

AllReturned == \A p \in Producers : gen[p].ret

\* no channel iterator was built
BridgeAbsent ==
    /\ generators = <<>>
    /\ ctxDone = FALSE /\ ctxErr = NoErr /\ parentDone = FALSE
    /\ cClosed = FALSE /\ cCloses = 0
    /\ item = [Data |-> Zero, Err |-> NoErr]
    /\ wg = 0
    /\ gen = <<>>
    /\ closerDone = FALSE
    /\ ignored = FALSE

\* the state NewChannelIterator returns in
BridgeInit ==
    /\ generators \in GeneratorLists
    /\ kind = IF Len(generators) = 0 THEN "Empty" ELSE "channelIter"
    /\ ctxDone = FALSE /\ ctxErr = NoErr /\ parentDone = FALSE
    /\ cClosed = FALSE /\ cCloses = 0
    /\ item = [Data |-> Zero, Err |-> NoErr]
    /\ wg = IF Len(generators) > 1 THEN Len(generators) ELSE 0
    /\ gen = [p \in 1..Len(generators) |-> [idx |-> 1, stop |-> FALSE, ret |-> FALSE]]
    /\ closerDone = FALSE
    /\ ignored = FALSE

----------------------------------------------------------------------------
(* MapAsync: state *)

\* most elements of the source iterator
MaxSrc == 3
\* most workers (the parameter n)
MaxWorkers == 2

Elems == {1, 2}
\* the error the source iterator may end with, the error update may return
SrcErr == "eS"
UpdateErr == "eU"

VARIABLES
    src,          \* the elements iter yields before its Next() returns false
    srcErr,       \* iter.Err() once its Next() has returned false
    failOn,       \* the elements update returns an error for
    n,            \* the number of workers
    rd,           \* the reader goroutine: its place pc, idx elements pulled from
                  \* iter, handed of them taken by a worker
    wk,           \* per worker goroutine: its place pc, the Result it holds
    inClosed,     \* in is closed
    inCloses,     \* number of close(in) executed
    outClosed,    \* out is closed
    outCloses,    \* number of close(out) executed
    quitClosed,   \* quit is closed
    quitCloses,   \* number of close(quit) executed
    mwg,          \* the WaitGroup counter
    current       \* ri.current

mvars == <<src, srcErr, failOn, n, rd, wk, inClosed, inCloses, outClosed, outCloses,
           quitClosed, quitCloses, mwg, current>>

Workers == 1..n

\* no MapAsync was called
MapAbsent ==
    /\ src = <<>> /\ srcErr = NoErr /\ failOn = {} /\ n = 0
    /\ rd = [pc |-> "done", idx |-> 0, handed |-> 0]
    /\ wk = <<>>
    /\ inClosed = FALSE /\ inCloses = 0
    /\ outClosed = FALSE /\ outCloses = 0
    /\ quitClosed = FALSE /\ quitCloses = 0
    /\ mwg = 0
    /\ current = [Value |-> Zero, Err |-> NoErr]

\* the state MapAsync returns in: the reader is about to call iter.Next(), the
\* workers are about to receive from in, the WaitGroup counts all of them
MapInit ==
    /\ src \in SeqsUpTo(Elems, MaxSrc)
    /\ srcErr \in {NoErr, SrcErr}
    /\ failOn \in SUBSET {src[i] : i \in 1..Len(src)}
    /\ n \in 1..MaxWorkers
    /\ kind = "receiveIter"
    /\ rd = [pc |-> "next", idx |-> 0, handed |-> 0]
    /\ wk = [w \in 1..n |-> [pc |-> "range", res |-> [Value |-> Zero, Err |-> NoErr]]]
    /\ inClosed = FALSE /\ inCloses = 0
    /\ outClosed = FALSE /\ outCloses = 0
    /\ quitClosed = FALSE /\ quitCloses = 0
    /\ mwg = 1 + n
    /\ current = [Value |-> Zero, Err |-> NoErr]

----------------------------------------------------------------------------
(* Generator, Filter, Map, Limit, Slice, Echo, Combine: state *)

\* largest Limit.Max
MaxMax == 2
\* most values Generate returns before it returns an error
MaxGen == 2
\* most calls of Generate in one run
MaxGenCalls == 4
\* most iterators of a Combine, most elements of a Slice
MaxInputs == 2
MaxData == 3

\* the constant Stop, an error Generate may return instead
Stop == "Stop Iteration"
GenErr == "eG"
\* Generate never returns an error
Unending == -1

VARIABLES
    g,            \* the Generator: val, err, and calls of Generate made so far
    genLen,       \* Generate returns an error when given genLen (or never)
    genEnd,       \* the error Generate then returns: Stop or another error
    Test,         \* Filter.Test: which values it returns true for
    limit,        \* the Limit: Max, count
    Iterators,    \* Combine.Iterators, or the one Slice drained alone or under a
                  \* FilterMap
    Inputs,       \* Iterators as they were constructed
    fm            \* the caller's FilterMap: its field next

svars == <<g, genLen, genEnd, Test, limit, Iterators, Inputs, fm>>

\* a Slice as constructed, an Echo of a CloneNoOp
NewSlice(d) == [type |-> "Slice", Data |-> d, started |-> FALSE]
NewEcho(v) == [type |-> "Echo", Template |-> v]

Slices == {NewSlice(d) : d \in SeqsUpTo(Elems, MaxData)}
Echoes == {NewEcho(v) : v \in Elems}

\* the zero Generator and a Limit with count 0
NewGenerator == [val |-> Zero, err |-> NoErr, calls |-> 0]
NewLimit(m) == [Max |-> m, count |-> 0]

\* a FilterMap as constructed: next is the zero value
NewFilterMap == [next |-> Zero]

\* no synchronous iterator was constructed
SyncAbsent ==
    /\ g = NewGenerator /\ genLen = 0 /\ genEnd = Stop
    /\ Test = "even" /\ limit = NewLimit(0)
    /\ Iterators = <<>> /\ Inputs = <<>>
    /\ fm = NewFilterMap

GeneratorParams ==
    /\ g = NewGenerator
    /\ genLen \in {Unending} \cup 0..MaxGen
    /\ genEnd \in {Stop, GenErr}

\* a Generator whose Next is called directly
GeneratorInit ==
    /\ kind = "Generator"
    /\ GeneratorParams
    /\ Test = "even" /\ limit = NewLimit(0)
    /\ Iterators = <<>> /\ Inputs = <<>>
    /\ fm = NewFilterMap

\* Limit over Map over Filter over Generator, handed to ToSlice
ChainInit ==
    /\ kind = "Chain"
    /\ GeneratorParams
    /\ Test \in {"even", "odd"}
    /\ limit \in {NewLimit(m) : m \in 0..MaxMax}
    /\ Iterators = <<>> /\ Inputs = <<>>
    /\ fm = NewFilterMap

\* one Slice handed to ToSlice
SliceInit ==
    /\ kind = "Slice"
    /\ g = NewGenerator /\ genLen = 0 /\ genEnd = Stop
    /\ Test = "even" /\ limit = NewLimit(0)
    /\ \E s \in Slices : Iterators = <<s>>
    /\ Inputs = Iterators
    /\ fm = NewFilterMap

\* a Combine of Slices and Echoes, one Slice at least, handed to ToSlice
CombineInit ==
    /\ kind = "Combine"
    /\ g = NewGenerator /\ genLen = 0 /\ genEnd = Stop
    /\ Test = "even" /\ limit = NewLimit(0)
    /\ \E k \in 1..MaxInputs :
          /\ Iterators \in [1..k -> Slices \cup Echoes]
          /\ \E i \in 1..k : Iterators[i].type = "Slice"
    /\ Inputs = Iterators
    /\ fm = NewFilterMap

\* a FilterMap over one Slice, handed to ToSlice
FilterMapInit ==
    /\ kind = "FilterMap"
    /\ g = NewGenerator /\ genLen = 0 /\ genEnd = Stop
    /\ Test \in {"even", "odd"} /\ limit = NewLimit(0)
    /\ \E s \in Slices : Iterators = <<s>>
    /\ Inputs = Iterators
    /\ fm = NewFilterMap

----------------------------------------------------------------------------
(* NewChannelIterator: operations *)

\* faulty variant: Next without its test of the buffered error
Mut_StickyErr(it) == FALSE

\* Next's first test: the buffered item already carries an error
StickyErr(it) == it.Err # NoErr

\* Next's test after a receive: the received item carries an error
ItemFailed(it) == it.Err # NoErr

\* faulty variant: Next returns true for an error item
Mut_NextResult(it) == TRUE

\* Next's result after a receive
NextResult(it) == it.Err = NoErr

\* faulty variant: Send without its ctx.Done() case
Mut_SendSeesDone == FALSE

\* the ctx.Done() case of the select in Send and SendErr is ready
SendSeesDone == ctxDone

\* the ctx.Done() case of the select in Next is ready
NextSeesDone == ctxDone

\* faulty variant: the channel is closed with one generator still running
Mut_WaitReturns == wg <= 1

\* wg.Wait() returns
WaitReturns == wg = 0

\* ci.cancel(): the first cancellation sets the error, later ones do nothing
AfterCancel(done, err, cause) == IF done THEN err ELSE cause

\* faulty variant: receiveIter.Next without its test of the buffered error
Mut_ResultSticky(r) == FALSE

\* receiveIter.Next's first test: the buffered Result already carries an error
ResultSticky(r) == r.Err # NoErr

\* Next returns false at once
NextReturnsAtOnce ==
    \/ kind = "Empty"
    \/ kind = "channelIter" /\ StickyErr(item)
    \/ kind = "receiveIter" /\ ResultSticky(current)

\* the consumer calls Next(): Empty returns false, a buffered error returns
\* false, otherwise the call blocks in channelIter's select or in receiveIter's
\* receive
CallNext ==
    /\ consumer = "idle"
    /\ lastNext = "false" => afterEnd < MaxNextAfterEnd
    /\ afterEnd' = IF lastNext = "false" THEN afterEnd + 1 ELSE afterEnd
    /\ IF NextReturnsAtOnce
          THEN /\ lastNext' = "false"
               /\ consumer' = "idle"
          ELSE /\ consumer' = IF kind = "channelIter" THEN "select" ELSE "range"
               /\ UNCHANGED lastNext
    /\ UNCHANGED <<generators, kind, ctxDone, ctxErr, parentDone, cClosed, cCloses,
                   item, wg, gen, closerDone, ignored, got,
                   mvars, svars>>

\* generator p's send meets the receive in Next: Send returns false, Next
\* stores the item, cancels on an error and returns
Handoff(p) ==
    /\ consumer = "select"
    /\ ~cClosed
    /\ InSend(p)
    /\ LET it == ItemOf(generators[p][gen[p].idx]) IN
         /\ item' = it
         /\ ctxErr' = IF ItemFailed(it) THEN AfterCancel(ctxDone, ctxErr, Canceled) ELSE ctxErr
         /\ ctxDone' = (ctxDone \/ ItemFailed(it))
         /\ lastNext' = IF NextResult(it) THEN "true" ELSE "false"
         /\ got' = IF NextResult(it) THEN Append(got, it.Data) ELSE got
    /\ gen' = [gen EXCEPT ![p].idx = @ + 1]
    /\ consumer' = "idle"
    /\ UNCHANGED <<generators, kind, parentDone, cClosed, cCloses, wg, closerDone,
                   ignored, afterEnd,
                   mvars, svars>>

\* Next receives from the closed channel
NextClosed ==
    /\ consumer = "select"
    /\ cClosed
    /\ lastNext' = "false"
    /\ consumer' = "idle"
    /\ UNCHANGED <<generators, kind, ctxDone, ctxErr, parentDone, cClosed, cCloses,
                   item, wg, gen, closerDone, ignored, got, afterEnd,
                   mvars, svars>>

\* Next takes the ctx.Done() case
NextCtxDone ==
    /\ consumer = "select"
    /\ NextSeesDone
    /\ item' = [item EXCEPT !.Err = ctxErr]
    /\ lastNext' = "false"
    /\ consumer' = "idle"
    /\ UNCHANGED <<generators, kind, ctxDone, ctxErr, parentDone, cClosed, cCloses,
                   wg, gen, closerDone, ignored, got, afterEnd,
                   mvars, svars>>

\* generator p's Send/SendErr takes the ctx.Done() case and returns true; the
\* generator then returns at once or goes on to its next call
SendCancelled(p) ==
    /\ InSend(p)
    /\ SendSeesDone
    /\ \E goOn \in BOOLEAN :
         /\ gen' = IF goOn THEN [gen EXCEPT ![p].idx = @ + 1]
                            ELSE [gen EXCEPT ![p].stop = TRUE]
         /\ ignored' = (ignored \/ goOn)
    /\ UNCHANGED <<generators, kind, ctxDone, ctxErr, parentDone, cClosed, cCloses,
                   item, wg, closerDone, consumer, lastNext, got, afterEnd,
                   mvars, svars>>

\* generator p returns: the only generator's goroutine closes the channel
\* (defer close), one of several calls wg.Done()
GenReturn(p) ==
    /\ AtReturn(p)
    /\ gen' = [gen EXCEPT ![p].ret = TRUE]
    /\ IF Len(generators) = 1
          THEN /\ cClosed' = TRUE
               /\ cCloses' = cCloses + 1
               /\ UNCHANGED wg
          ELSE /\ wg' = wg - 1
               /\ UNCHANGED <<cClosed, cCloses>>
    /\ UNCHANGED <<generators, kind, ctxDone, ctxErr, parentDone, item, closerDone,
                   ignored, consumer, lastNext, got, afterEnd,
                   mvars, svars>>

\* the goroutine that waits for the WaitGroup and closes the channel
Closer ==
    /\ Len(generators) > 1
    /\ ~closerDone
    /\ WaitReturns
    /\ closerDone' = TRUE
    /\ cClosed' = TRUE
    /\ cCloses' = cCloses + 1
    /\ UNCHANGED <<generators, kind, ctxDone, ctxErr, parentDone, item, wg, gen,
                   ignored, consumer, lastNext, got, afterEnd,
                   mvars, svars>>

\* the caller's context is cancelled: the derived context is cancelled with
\* the parent's error unless it was cancelled before
ExternalCancel ==
    /\ kind = "channelIter"
    /\ ~parentDone
    /\ parentDone' = TRUE
    /\ \E cause \in ParentErrs : ctxErr' = AfterCancel(ctxDone, ctxErr, cause)
    /\ ctxDone' = TRUE
    /\ UNCHANGED <<generators, kind, cClosed, cCloses, item, wg, gen, closerDone,
                   ignored, consumer, lastNext, got, afterEnd,
                   mvars, svars>>

BridgeNext ==
    \/ \E p \in Producers : Handoff(p)
    \/ NextClosed
    \/ NextCtxDone
    \/ \E p \in Producers : SendCancelled(p)
    \/ \E p \in Producers : GenReturn(p)
    \/ Closer
    \/ ExternalCancel

----------------------------------------------------------------------------
(* MapAsync: operations *)

\* the update function: doubles, or fails on the elements of failOn
Update(e) ==
    IF e \in failOn THEN [Value |-> Zero, Err |-> UpdateErr]
                    ELSE [Value |-> 2 * e, Err |-> NoErr]

\* faulty variant: the reader sends a Result without the source's error
Mut_ErrResult(err) == [Value |-> Zero, Err |-> NoErr]

\* the Result the reader sends when the source ended with an error
ErrResult(err) == [Value |-> Zero, Err |-> err]

\* faulty variant: receiveIter.Next returns true for an error Result
Mut_RangeResult(r) == TRUE

\* receiveIter.Next's result after a receive
RangeResult(r) == r.Err = NoErr

\* faulty variant: the quit case is always taken (as a default case would be)
Mut_QuitReady == TRUE

\* the quit case of a select is ready
QuitReady == quitClosed

\* faulty variant: out is closed with one task still running
Mut_MapWaitReturns == mwg <= 1

\* wg.Wait() returns
MapWaitReturns == mwg = 0

\* faulty variant: the reader without its close(in)
Mut_ReaderFinish ==
    /\ rd' = [rd EXCEPT !.pc = "done"]
    /\ mwg' = mwg - 1
    /\ UNCHANGED <<inClosed, inCloses>>

\* the reader's last statements: close(in), and the deferred wg.Done()
ReaderFinish ==
    /\ rd' = [rd EXCEPT !.pc = "done"]
    /\ inClosed' = TRUE
    /\ inCloses' = inCloses + 1
    /\ mwg' = mwg - 1

\* the consumer's receive in receiveIter.Next takes Result r
Receive(r) ==
    /\ consumer = "range"
    /\ ~outClosed
    /\ current' = r
    /\ lastNext' = IF RangeResult(r) THEN "true" ELSE "false"
    /\ got' = IF RangeResult(r) THEN Append(got, r.Value) ELSE got
    /\ consumer' = "idle"
    /\ UNCHANGED <<kind, afterEnd>>

\* the reader calls iter.Next(): an element to send, or the end of the source,
\* where it goes on to send the source's error or finishes
ReaderNext ==
    /\ rd.pc = "next"
    /\ IF rd.idx < Len(src)
          THEN /\ rd' = [rd EXCEPT !.pc = "sendIn", !.idx = rd.idx + 1]
               /\ UNCHANGED <<inClosed, inCloses, mwg>>
          ELSE IF srcErr # NoErr
                  THEN /\ rd' = [rd EXCEPT !.pc = "sendErr"]
                       /\ UNCHANGED <<inClosed, inCloses, mwg>>
                  ELSE ReaderFinish
    /\ UNCHANGED <<src, srcErr, failOn, n, wk, outClosed, outCloses, quitClosed,
                   quitCloses, current, cvars, bvars, svars>>

\* faulty variant: the send on in does not wait for a worker's receive (as on a
\* buffered channel); the element replaces what the worker holds
Mut_ReaderHandoff(w) ==
    /\ rd.pc = "sendIn"
    /\ ~inClosed
    /\ wk[w].pc \in {"range", "send"}
    /\ wk' = [wk EXCEPT ![w] = [pc |-> "send", res |-> Update(src[rd.idx])]]
    /\ rd' = [rd EXCEPT !.pc = "next", !.handed = rd.handed + 1]
    /\ UNCHANGED <<src, srcErr, failOn, n, inClosed, inCloses, outClosed, outCloses,
                   quitClosed, quitCloses, mwg, current, cvars, bvars, svars>>

\* the reader's send on in meets worker w's receive; the worker calls update
ReaderHandoff(w) ==
    /\ rd.pc = "sendIn"
    /\ ~inClosed
    /\ wk[w].pc = "range"
    /\ wk' = [wk EXCEPT ![w] = [pc |-> "send", res |-> Update(src[rd.idx])]]
    /\ rd' = [rd EXCEPT !.pc = "next", !.handed = rd.handed + 1]
    /\ UNCHANGED <<src, srcErr, failOn, n, inClosed, inCloses, outClosed, outCloses,
                   quitClosed, quitCloses, mwg, current, cvars, bvars, svars>>

\* the reader's select takes the quit case: break READ, iter.Err() is nil
\* before the end of the source
ReaderQuit ==
    /\ rd.pc = "sendIn"
    /\ QuitReady
    /\ ReaderFinish
    /\ UNCHANGED <<src, srcErr, failOn, n, wk, outClosed, outCloses, quitClosed,
                   quitCloses, current, cvars, bvars, svars>>

\* the reader's send of the source's error meets the consumer's receive
ReaderErrHandoff ==
    /\ rd.pc = "sendErr"
    /\ Receive(ErrResult(srcErr))
    /\ rd' = [rd EXCEPT !.pc = "closeQuit"]
    /\ UNCHANGED <<src, srcErr, failOn, n, wk, inClosed, inCloses, outClosed,
                   outCloses, quitClosed, quitCloses, mwg, bvars, svars>>

\* the reader, about to send the source's error, takes the quit case
ReaderErrQuit ==
    /\ rd.pc = "sendErr"
    /\ QuitReady
    /\ ReaderFinish
    /\ UNCHANGED <<src, srcErr, failOn, n, wk, outClosed, outCloses, quitClosed,
                   quitCloses, current, cvars, bvars, svars>>

\* the reader closes quit after its error was taken, and finishes
ReaderCloseQuit ==
    /\ rd.pc = "closeQuit"
    /\ quitClosed' = TRUE
    /\ quitCloses' = quitCloses + 1
    /\ ReaderFinish
    /\ UNCHANGED <<src, srcErr, failOn, n, wk, outClosed, outCloses, current,
                   cvars, bvars, svars>>

\* worker w's range over in ends: in is closed; deferred wg.Done()
WorkerEnd(w) ==
    /\ wk[w].pc = "range"
    /\ inClosed
    /\ wk' = [wk EXCEPT ![w].pc = "done"]
    /\ mwg' = mwg - 1
    /\ UNCHANGED <<src, srcErr, failOn, n, rd, inClosed, inCloses, outClosed,
                   outCloses, quitClosed, quitCloses, current, cvars, bvars, svars>>

\* faulty variant: after its send was taken the worker sends the Result again
Mut_WorkerHandoff(w) ==
    /\ wk[w].pc = "send"
    /\ Receive(wk[w].res)
    /\ wk' = [wk EXCEPT ![w].pc = IF wk[w].res.Err # NoErr THEN "closeQuit" ELSE "send"]
    /\ UNCHANGED <<src, srcErr, failOn, n, rd, inClosed, inCloses, outClosed,
                   outCloses, quitClosed, quitCloses, mwg, bvars, svars>>

\* worker w's send on out meets the consumer's receive; after an error the
\* worker goes on to close quit, else back to its range over in
WorkerHandoff(w) ==
    /\ wk[w].pc = "send"
    /\ Receive(wk[w].res)
    /\ wk' = [wk EXCEPT ![w].pc = IF wk[w].res.Err # NoErr THEN "closeQuit" ELSE "range"]
    /\ UNCHANGED <<src, srcErr, failOn, n, rd, inClosed, inCloses, outClosed,
                   outCloses, quitClosed, quitCloses, mwg, bvars, svars>>

\* worker w's select takes the quit case: return; deferred wg.Done()
WorkerQuit(w) ==
    /\ wk[w].pc = "send"
    /\ QuitReady
    /\ wk' = [wk EXCEPT ![w].pc = "done"]
    /\ mwg' = mwg - 1
    /\ UNCHANGED <<src, srcErr, failOn, n, rd, inClosed, inCloses, outClosed,
                   outCloses, quitClosed, quitCloses, current, cvars, bvars, svars>>

\* faulty variant: the worker goes back to its range without closing quit
Mut_WorkerCloseQuit(w) ==
    /\ wk[w].pc = "closeQuit"
    /\ wk' = [wk EXCEPT ![w].pc = "range"]
    /\ UNCHANGED <<src, srcErr, failOn, n, rd, inClosed, inCloses, outClosed,
                   outCloses, quitClosed, quitCloses, mwg, current, cvars, bvars, svars>>

\* worker w closes quit after its error was taken and goes back to its range
WorkerCloseQuit(w) ==
    /\ wk[w].pc = "closeQuit"
    /\ quitClosed' = TRUE
    /\ quitCloses' = quitCloses + 1
    /\ wk' = [wk EXCEPT ![w].pc = "range"]
    /\ UNCHANGED <<src, srcErr, failOn, n, rd, inClosed, inCloses, outClosed,
                   outCloses, mwg, current, cvars, bvars, svars>>

\* the goroutine that waits for the WaitGroup and closes out
MapCloser ==
    /\ kind = "receiveIter"
    /\ outCloses = 0
    /\ MapWaitReturns
    /\ outClosed' = TRUE
    /\ outCloses' = outCloses + 1
    /\ UNCHANGED <<src, srcErr, failOn, n, rd, wk, inClosed, inCloses, quitClosed,
                   quitCloses, mwg, current, cvars, bvars, svars>>

\* receiveIter.Next's range over out ends: out is closed
NextOutClosed ==
    /\ consumer = "range"
    /\ outClosed
    /\ lastNext' = "false"
    /\ consumer' = "idle"
    /\ UNCHANGED <<kind, got, afterEnd, mvars, bvars, svars>>

MapNext ==
    \/ ReaderNext
    \/ \E w \in Workers : ReaderHandoff(w)
    \/ ReaderQuit
    \/ ReaderErrHandoff
    \/ ReaderErrQuit
    \/ ReaderCloseQuit
    \/ \E w \in Workers : WorkerEnd(w)
    \/ \E w \in Workers : WorkerHandoff(w)
    \/ \E w \in Workers : WorkerQuit(w)
    \/ \E w \in Workers : WorkerCloseQuit(w)
    \/ MapCloser
    \/ NextOutClosed

----------------------------------------------------------------------------
(* Generator, Filter, Map, Limit, Slice, Echo, Combine: operations *)

\* the Generate function: the next integer, or an error once genLen is reached
Generate(v) ==
    IF genLen # Unending /\ v >= genLen
       THEN [val |-> Zero, err |-> genEnd]
       ELSE [val |-> v + 1, err |-> NoErr]

\* Generator.Next: the Generator after the call and the value returned
GeneratorNext(gs) ==
    IF gs.err # NoErr
       THEN [g |-> gs, ok |-> FALSE]
       ELSE LET r == Generate(gs.val)
            IN  [g |-> [val |-> r.val, err |-> r.err, calls |-> gs.calls + 1],
                 ok |-> r.err # NoErr]

\* Generator.Err
GeneratorErr(gs) == IF gs.err = Stop THEN NoErr ELSE gs.err

\* Filter.Test of the chain
TestPasses(v) == IF Test = "even" THEN v % 2 = 0 ELSE v % 2 = 1

\* Map.Update of the chain: strconv.Itoa
Itoa(i) == ToString(i)

\* faulty variant: Slice.Next without its started flag, the first call advances
Mut_SliceNext(s) ==
    IF Len(s.Data) = 0
       THEN [it |-> s, ok |-> FALSE]
       ELSE [it |-> [s EXCEPT !.Data = Tail(s.Data)], ok |-> Len(Tail(s.Data)) > 0]

\* Slice.Next: the Slice after the call and the value returned
SliceNext(s) ==
    IF Len(s.Data) = 0
       THEN [it |-> s, ok |-> FALSE]
       ELSE IF s.started
               THEN [it |-> [s EXCEPT !.Data = Tail(s.Data)],
                     ok |-> Len(Tail(s.Data)) > 0]
               ELSE [it |-> [s EXCEPT !.started = TRUE], ok |-> TRUE]

\* Next, Get and Err of a Slice or an Echo
InputNext(it) == IF it.type = "Slice" THEN SliceNext(it) ELSE [it |-> it, ok |-> TRUE]
InputGet(it) == IF it.type = "Slice" THEN it.Data[1] ELSE it.Template
InputErr(it) == NoErr

\* Combine.Next from the i-th iterator on: Next of each in turn, false at the
\* first that returns false
RECURSIVE CombineNext(_, _)
CombineNext(its, i) ==
    IF i > Len(its)
       THEN [its |-> its, ok |-> TRUE]
       ELSE LET r == InputNext(its[i])
                after == [its EXCEPT ![i] = r.it]
            IN  IF r.ok THEN CombineNext(after, i + 1)
                        ELSE [its |-> after, ok |-> FALSE]

\* the Join function applied to its arguments, left uninterpreted
Join(values) == [join |-> values]

\* faulty variant: Combine.Get joins the first iterator's value only
Mut_CombineGet(its) == Join(<<InputGet(its[1])>>)

\* Combine.Get
CombineGet(its) == Join([i \in 1..Len(its) |-> InputGet(its[i])])

\* Combine.Err: the first error of an iterator
CombineErr(its) ==
    IF \E i \in 1..Len(its) : InputErr(its[i]) # NoErr
       THEN InputErr(its[CHOOSE i \in 1..Len(its) :
                           /\ InputErr(its[i]) # NoErr
                           /\ \A j \in 1..(i - 1) : InputErr(its[j]) = NoErr])
       ELSE NoErr

\* Next() is called on the Generator, and Get() after true
GeneratorCall ==
    /\ kind = "Generator" /\ consumer = "idle"
    /\ g.calls < MaxGenCalls
    /\ lastNext = "false" => afterEnd < MaxNextAfterEnd
    /\ afterEnd' = IF lastNext = "false" THEN afterEnd + 1 ELSE afterEnd
    /\ LET r == GeneratorNext(g)
       IN  /\ g' = r.g
           /\ lastNext' = IF r.ok THEN "true" ELSE "false"
           /\ got' = IF r.ok THEN Append(got, r.g.val) ELSE got
    /\ UNCHANGED <<kind, consumer, genLen, genEnd, Test, limit, Iterators, Inputs, fm,
                   bvars, mvars>>

\* GetN calls Limit.Next: false at once when count has reached Max, and GetN
\* returns; else Limit.Next calls Filter.Next
ChainCall ==
    /\ kind = "Chain" /\ consumer = "idle"
    /\ IF limit.count >= limit.Max
          THEN /\ lastNext' = "false"
               /\ consumer' = "returned"
          ELSE /\ consumer' = "filter"
               /\ UNCHANGED lastNext
    /\ UNCHANGED <<kind, got, afterEnd, svars, bvars, mvars>>

\* one turn of Filter.Next's loop: Generator.Next; on false Filter.Next and
\* Limit.Next return false and GetN returns; on true and a passing Test they
\* return true and GetN appends Map.Get(); else the loop goes on
FilterStep ==
    /\ kind = "Chain" /\ consumer = "filter"
    /\ g.calls < MaxGenCalls
    /\ LET r == GeneratorNext(g)
       IN  /\ g' = r.g
           /\ IF ~r.ok
                 THEN /\ limit' = [limit EXCEPT !.count = limit.Max]
                      /\ lastNext' = "false"
                      /\ consumer' = "returned"
                      /\ UNCHANGED got
                 ELSE IF TestPasses(r.g.val)
                         THEN /\ limit' = [limit EXCEPT !.count = limit.count + 1]
                              /\ lastNext' = "true"
                              /\ consumer' = "idle"
                              /\ got' = Append(got, Itoa(r.g.val))
                         ELSE UNCHANGED <<limit, lastNext, consumer, got>>
    /\ UNCHANGED <<kind, afterEnd, genLen, genEnd, Test, Iterators, Inputs, fm,
                   bvars, mvars>>

\* one turn of GetN's loop over the Slice
SliceCall ==
    /\ kind = "Slice" /\ consumer = "idle"
    /\ LET r == SliceNext(Iterators[1])
       IN  /\ Iterators' = <<r.it>>
           /\ lastNext' = IF r.ok THEN "true" ELSE "false"
           /\ consumer' = IF r.ok THEN "idle" ELSE "returned"
           /\ got' = IF r.ok THEN Append(got, InputGet(r.it)) ELSE got
    /\ UNCHANGED <<kind, afterEnd, g, genLen, genEnd, Test, limit, Inputs, fm,
                   bvars, mvars>>

\* one turn of GetN's loop over the Combine
CombineCall ==
    /\ kind = "Combine" /\ consumer = "idle"
    /\ LET r == CombineNext(Iterators, 1)
       IN  /\ Iterators' = r.its
           /\ lastNext' = IF r.ok THEN "true" ELSE "false"
           /\ consumer' = IF r.ok THEN "idle" ELSE "returned"
           /\ got' = IF r.ok THEN Append(got, CombineGet(r.its)) ELSE got
    /\ UNCHANGED <<kind, afterEnd, g, genLen, genEnd, Test, limit, Inputs, fm,
                   bvars, mvars>>

\* the TestUpdate function: ten times an element that passes Test
TestUpdate(e) ==
    IF TestPasses(e) THEN [ok |-> TRUE, a |-> 10 * e]
                     ELSE [ok |-> FALSE, a |-> Zero]

\* FilterMap.Next on a receiver whose Iterator is the Slice s and whose next is
\* nxt: the Slice and the receiver's next after the call, the value returned
RECURSIVE FilterMapNext(_, _)
FilterMapNext(s, nxt) ==
    LET r == InputNext(s)
    IN  IF ~r.ok
           THEN [it |-> r.it, next |-> nxt, ok |-> FALSE]
           ELSE LET tu == TestUpdate(InputGet(r.it))
                IN  IF tu.ok THEN [it |-> r.it, next |-> tu.a, ok |-> TRUE]
                             ELSE FilterMapNext(r.it, tu.a)

\* the caller's FilterMap once Next has returned: Next has a value receiver, so
\* it worked on a copy and the caller's struct is as it was
AfterNext(caller, receiver) == caller

\* FilterMap.Get
FilterMapGet(f) == f.next

\* one turn of GetN's loop over the FilterMap
FilterMapCall ==
    /\ kind = "FilterMap" /\ consumer = "idle"
    /\ LET r == FilterMapNext(Iterators[1], fm.next)
       IN  /\ Iterators' = <<r.it>>
           /\ fm' = AfterNext(fm, [next |-> r.next])
           /\ lastNext' = IF r.ok THEN "true" ELSE "false"
           /\ consumer' = IF r.ok THEN "idle" ELSE "returned"
           /\ got' = IF r.ok THEN Append(got, FilterMapGet(fm')) ELSE got
    /\ UNCHANGED <<kind, afterEnd, g, genLen, genEnd, Test, limit, Inputs,
                   bvars, mvars>>

SyncNext ==
    \/ FilterMapCall
    \/ GeneratorCall
    \/ ChainCall
    \/ FilterStep
    \/ SliceCall
    \/ CombineCall

----------------------------------------------------------------------------
(* Specifications *)

vars == <<cvars, bvars, mvars, svars>>

\* a Generator, a chain, a Slice or a Combine was constructed and is drained
SyncInit == GeneratorInit \/ ChainInit \/ SliceInit \/ CombineInit \/ FilterMapInit

InitSync == ConsumerInit /\ SyncInit /\ BridgeAbsent /\ MapAbsent

SpecSync == InitSync /\ [][SyncNext]_vars


\* NewChannelIterator was called and the iterator it returned is drained
InitBridge == ConsumerInit /\ BridgeInit /\ MapAbsent /\ SyncAbsent

NextBridge == CallNext \/ BridgeNext

SpecBridge == InitBridge /\ [][NextBridge]_vars

\* MapAsync was called and the iterator it returned is drained
InitMapAsync == ConsumerInit /\ MapInit /\ BridgeAbsent /\ SyncAbsent

NextMapAsync == CallNext \/ MapNext

SpecMapAsync == InitMapAsync /\ [][NextMapAsync]_vars

\* either constructor, then the iterator it returned is drained
Init == InitBridge \/ InitMapAsync

Next == CallNext \/ BridgeNext \/ MapNext

Spec == Init /\ [][Next]_vars

\* A goroutine whose select has a ready case, or that has only to return, runs on:
\* the Go scheduler starves no runnable goroutine.  Nothing makes the consumer
\* call Next.
InitFairBridge == InitBridge /\ SumLen(generators) <= MaxFairItems

FairBridge ==
    /\ InitFairBridge
    /\ [][NextBridge]_vars
    /\ \A p \in 1..MaxProducers :
          WF_vars(p \in Producers /\ (SendCancelled(p) \/ GenReturn(p)))
    /\ WF_vars(Closer)

\* The reader, the workers and the closing goroutine run on whenever they can
\* take a step, and the consumer calls Next() again until it has returned false.
\* Fairness of the steps taken together is weaker than fairness of each
\* goroutine.
ConsumerDrains == CallNext /\ lastNext # "false"

FairMapAsync ==
    /\ InitMapAsync
    /\ [][NextMapAsync]_vars
    /\ WF_vars(MapNext \/ ConsumerDrains)

----------------------------------------------------------------------------
(* NewChannelIterator: properties *)

\* the values a generator sends, in order
SentValues(script) ==
    LET sends == SelectSeq(script, LAMBDA call : call.op = "Send")
    IN  [i \in 1..Len(sends) |-> sends[i].arg]

\* one generator that sends values and then returns, or sends one error and returns
OneProducerThenEnd ==
    /\ Len(generators) = 1
    /\ \A i \in 1..(Len(generators[1]) - 1) : generators[1][i].op = "Send"

FinalErr(script) ==
    IF script # <<>> /\ script[Len(script)].op = "SendErr"
       THEN script[Len(script)].arg ELSE NoErr

\* C1: with one producer that sends v1..vk and then returns or sends the error
\* e and returns, and no external cancellation, the Next() calls that return
\* true yield v1..vk in order, the Next() that returns false comes after all
\* k of them, and Err() is then nil or e.
Thm_C1 ==
    (OneProducerThenEnd /\ ~parentDone) =>
        /\ IsPrefix(got, SentValues(generators[1]))
        /\ lastNext = "true" => item = Send(got[Len(got)])
        /\ lastNext = "false" =>
              /\ got = SentValues(generators[1])
              /\ item.Err = FinalErr(generators[1])

Wit_C1 ==
    /\ OneProducerThenEnd /\ ~parentDone
    /\ Len(generators[1]) = 3
    /\ FinalErr(generators[1]) # NoErr
    /\ generators[1][1].arg # generators[1][2].arg
    /\ lastNext = "false"
    /\ Len(got) = 2

NoFailingCall == \A p \in Producers : \A i \in 1..Len(generators[p]) : generators[p][i].op = "Send"

RECURSIVE AllSentValues(_)
AllSentValues(gs) == IF gs = <<>> THEN <<>> ELSE SentValues(Head(gs)) \o AllSentValues(Tail(gs))

\* C2: with producers that send no error and no external cancellation, the
\* values drained are, as a multiset, the values sent, and Err() is nil once
\* Next() has returned false; without producers the iterator is Empty, no
\* goroutine exists and Next() can only return false.
Thm_C2 ==
    (NoFailingCall /\ ~parentDone) =>
        /\ SeqToBag(got) \sqsubseteq SeqToBag(AllSentValues(generators))
        /\ item.Err = NoErr
        /\ lastNext = "false" => SeqToBag(got) = SeqToBag(AllSentValues(generators))
        /\ Len(generators) = 0 =>
              /\ kind = "Empty" /\ DOMAIN gen = {} /\ wg = 0 /\ cCloses = 0
              /\ lastNext # "true" /\ consumer = "idle"

Wit_C2 ==
    /\ NoFailingCall /\ ~parentDone
    /\ Len(generators) = 2
    /\ Len(generators[1]) = 2 /\ Len(generators[2]) = 1
    /\ generators[1][1].arg = generators[2][1].arg
    /\ generators[1][2].arg # generators[2][1].arg
    /\ lastNext = "false"
    /\ got[1] = generators[1][1].arg /\ got[2] = generators[2][1].arg

\* C9: the channel is closed at most once, only after every generator has
\* returned (so no generator is in a send on the closed channel), and it has
\* been closed once all generators have returned and the closing goroutine ran.
Thm_C9 ==
    kind = "channelIter" =>
        /\ cCloses <= 1
        /\ cClosed <=> cCloses >= 1
        /\ cClosed => AllReturned
        /\ \A p \in Producers : InSend(p) => ~cClosed
        /\ (AllReturned /\ (Len(generators) = 1 \/ closerDone)) => cCloses = 1

Wit_C9 ==
    /\ Len(generators) = 2
    /\ cClosed /\ cCloses = 1
    /\ ctxDone /\ parentDone
    /\ item.Err \in Errors
    /\ \E p \in Producers : gen[p].idx <= Len(generators[p])

\* C10: once the context is cancelled, every generator returns and the channel
\* is closed, whether or not the consumer calls Next again.
Thm_C10 == ctxDone ~> (AllReturned /\ cClosed)

\* the context was cancelled with a generator blocked in a send and the
\* consumer outside Next; the generators have all returned since
Wit_C10 ==
    /\ ctxDone /\ AllReturned /\ cClosed
    /\ Len(generators) = 2
    /\ consumer = "idle" /\ lastNext = "true"
    /\ \E p \in Producers : gen[p].stop

\* C11: when the caller's context is cancelled while a generator still has
\* calls to make, and generators return at the first cancelled send, the
\* Next() that returns false leaves the context's error in Err().
Cex_C11 ==
    (/\ kind = "channelIter" /\ NoFailingCall
     /\ parentDone /\ ~ignored
     /\ \E p \in Producers : gen[p].stop
     /\ lastNext = "false")
        => item.Err # NoErr /\ item.Err = ctxErr

\* Next() has returned false with a nil Err() on the channel closed after
\* every generator returned
Exhausted ==
    /\ kind = "channelIter"
    /\ lastNext = "false" /\ item.Err = NoErr
    /\ cClosed /\ AllReturned

\* C19: once Next() has returned false with a nil Err() on the closed channel,
\* Next() keeps returning false and Err() stays nil, whatever the caller's
\* context does.
Cex_C19 == [][Exhausted => (lastNext' = "false" /\ item'.Err = NoErr)]_vars


----------------------------------------------------------------------------
(* MapAsync: properties *)

\* update applied to each element of a sequence
Mapped(elems) == [i \in 1..Len(elems) |-> Update(elems[i]).Value]

\* the elements of the source on which update succeeds
Succeeding == SelectSeq(src, LAMBDA e : e \notin failOn)

AllWorkersDone == \A w \in Workers : wk[w].pc = "done"

\* C3: with one worker, a source that ends without error and an update that
\* never fails, the values drained are update of the source's elements in
\* source order, all of them once Next() has returned false, and Err() is nil.
Thm_C3 ==
    (kind = "receiveIter" /\ n = 1 /\ srcErr = NoErr /\ failOn = {}) =>
        /\ IsPrefix(got, Mapped(src))
        /\ current.Err = NoErr
        /\ lastNext = "true" => current.Value = got[Len(got)]
        /\ lastNext = "false" => got = Mapped(src)

Wit_C3 ==
    /\ kind = "receiveIter" /\ n = 1 /\ srcErr = NoErr /\ failOn = {}
    /\ Len(src) = 3 /\ src[1] # src[2] /\ src[2] # src[3]
    /\ lastNext = "false"
    /\ Len(got) = 3

\* C4: with several workers, a source that ends without error and an update
\* that never fails, the values drained are, as a multiset, update of the
\* source's elements: never more than those, and all of them once Next() has
\* returned false; Err() is nil.
Thm_C4 ==
    (kind = "receiveIter" /\ n > 1 /\ srcErr = NoErr /\ failOn = {}) =>
        /\ SeqToBag(got) \sqsubseteq SeqToBag(Mapped(src))
        /\ current.Err = NoErr
        /\ lastNext = "false" => SeqToBag(got) = SeqToBag(Mapped(src))

\* drained out of source order
Wit_C4 ==
    /\ kind = "receiveIter" /\ n > 1 /\ srcErr = NoErr /\ failOn = {}
    /\ Len(src) = 3 /\ src[1] = src[3] /\ src[1] # src[2]
    /\ lastNext = "false"
    /\ Len(got) = 3 /\ got[1] = got[2]

\* C5: with a source that ends without error and an update that fails on some
\* element, Next() returns false only with the update's error in Err(), and the
\* values drained are update of elements it succeeds on, each element counted
\* at most once.
Thm_C5 ==
    (kind = "receiveIter" /\ srcErr = NoErr /\ failOn # {}) =>
        /\ lastNext = "false" => current.Err = UpdateErr
        /\ lastNext = "true" => current.Err = NoErr /\ current.Value = got[Len(got)]
        /\ SeqToBag(got) \sqsubseteq SeqToBag(Mapped(Succeeding))
        /\ Len(got) <= Len(src)
        /\ \A i \in 1..Len(got) : \E e \in Elems \ failOn : got[i] = Update(e).Value

\* a value was drained after the failing element had been handed to a worker
Wit_C5 ==
    /\ kind = "receiveIter" /\ srcErr = NoErr /\ n = 2
    /\ Len(src) = 3 /\ src[1] \in failOn /\ src[2] \notin failOn /\ src[3] \notin failOn
    /\ lastNext = "false"
    /\ Len(got) = 2

\* C6: quit is closed at most once.
Thm_C6 == quitCloses <= 1

\* the source ended with an error and a worker's update failed: one of the two
\* closed quit, the other saw it closed
Wit_C6 ==
    /\ srcErr # NoErr /\ rd.pc = "done" /\ rd.idx = Len(src)
    /\ \E w \in Workers : wk[w].res.Err = UpdateErr /\ wk[w].pc = "done"
    /\ quitCloses = 1
    /\ afterEnd > 0

\* C8: in is closed once, by the reader at its end, so never while the reader
\* is in a send; out is closed once, only after the reader and all workers have
\* returned, so never while a task is in a send on it.
Thm_C8 ==
    kind = "receiveIter" =>
        /\ inCloses <= 1 /\ (inClosed <=> inCloses = 1)
        /\ outCloses <= 1 /\ (outClosed <=> outCloses = 1)
        /\ inClosed <=> rd.pc = "done"
        /\ rd.pc = "sendIn" => ~inClosed
        /\ outClosed => rd.pc = "done" /\ AllWorkersDone
        /\ rd.pc = "sendErr" => ~outClosed
        /\ \A w \in Workers : wk[w].pc = "send" => ~outClosed
        /\ mwg = Cardinality({w \in Workers : wk[w].pc # "done"})
                 + (IF rd.pc = "done" THEN 0 ELSE 1)

Wit_C8 ==
    /\ kind = "receiveIter" /\ n = 2
    /\ outClosed /\ inClosed
    /\ quitCloses = 1
    /\ current.Err = SrcErr
    /\ \E w \in Workers : wk[w].res.Err = UpdateErr

\* the source ends with an error and update never fails
SourceFails == kind = "receiveIter" /\ srcErr # NoErr /\ failOn = {}

\* the reader is past the end of the source, at or after its send of the error
ReaderPastSource == rd.pc \in {"sendErr", "closeQuit", "done"}

\* C17: when the source ends with an error e and update never fails, the only
\* failing Result is the reader's, sent once and carrying e; the reader closes
\* quit after it and has pulled nothing more from the source; a Next() that
\* returned false left Err() = e.
Thm_C17 ==
    SourceFails =>
        /\ \A w \in Workers : wk[w].res.Err = NoErr
        /\ current.Err \in {NoErr, srcErr}
        /\ current.Err # NoErr <=> rd.pc \in {"closeQuit", "done"}
        /\ rd.pc = "done" <=> quitClosed
        /\ quitCloses = IF rd.pc = "done" THEN 1 ELSE 0
        /\ ReaderPastSource => rd.idx = Len(src)
        /\ lastNext = "false" => current.Err = srcErr

\* the source's error ended a drain of a source of two or more elements: the
\* reader has returned, quit is closed
Wit_C17 ==
    /\ SourceFails /\ Len(src) >= 2 /\ n = 2
    /\ rd.pc = "done" /\ quitClosed
    /\ lastNext = "false" /\ consumer = "idle"
    /\ current = ErrResult(srcErr)
    /\ Len(got) >= 1

\* the Results the consumer has received from out: the values Next() returned
\* true for, and the failing Result if one was received
Received == Len(got) + (IF current.Err # NoErr THEN 1 ELSE 0)

\* C20: the elements the reader has pulled from the source exceed the Results
\* the consumer has received by at most n + 1.
Thm_C20 == kind = "receiveIter" => rd.idx - Received <= n + 1

\* one worker and a consumer that never called Next(): the worker holds the
\* first Result, the reader holds the second element, the third is not pulled
Wit_C20 ==
    /\ kind = "receiveIter" /\ n = 1 /\ Len(src) = 3
    /\ lastNext = "none" /\ consumer = "idle" /\ Received = 0
    /\ wk[1].pc = "send"
    /\ rd.pc = "sendIn" /\ rd.idx = n + 1

\* the elements a worker took from in whose update succeeds, in source order
AcceptedOk == SelectSeq(SubSeq(src, 1, rd.handed), LAMBDA e : e \notin failOn)

\* every task has returned, out is closed and Next() has returned false
DrainOver ==
    /\ kind = "receiveIter"
    /\ rd.pc = "done" /\ AllWorkersDone /\ outClosed
    /\ lastNext = "false" /\ consumer = "idle"

\* C18 as stated: when the drain is over, the values Next() returned are, as a
\* multiset, the updated values of all elements a worker took and whose update
\* succeeded - none dropped, none twice.
Cex_C18 == DrainOver => SeqToBag(got) = SeqToBag(Mapped(AcceptedOk))

\* C18, amended: the values Next() returned are, each at most once, updated
\* values of elements a worker took and whose update succeeded; at most n of those
\* are missing (one per worker), and none is missing, and the whole source was
\* taken, when Next() returned false with a nil Err().
Thm_C18 ==
    kind = "receiveIter" =>
        /\ SeqToBag(got) \sqsubseteq SeqToBag(Mapped(AcceptedOk))
        /\ Len(AcceptedOk) - Len(got) <= n
        /\ (lastNext = "false" /\ current.Err = NoErr) =>
              /\ rd.handed = Len(src)
              /\ SeqToBag(got) = SeqToBag(Mapped(AcceptedOk))

\* a drain that ended with a failure, after a value was returned, while a
\* worker held the Result of a successful update, which it dropped on quit
Wit_C18 ==
    /\ DrainOver /\ n = 2
    /\ current.Err # NoErr
    /\ Len(got) >= 1
    /\ Len(AcceptedOk) > Len(got)

\* the reader and every worker have returned and out is closed
TornDown == rd.pc = "done" /\ AllWorkersDone /\ outClosed

\* C16: when the consumer calls Next() until it returns false, the reader and
\* all workers eventually return and out is eventually closed.
Thm_C16 == <>TornDown

\* torn down after two workers held failing Results at the same time: one was
\* received and its worker closed quit, the other worker returned on quit
Wit_C16 ==
    /\ kind = "receiveIter" /\ n = 2 /\ TornDown
    /\ \A w \in Workers : wk[w].res.Err # NoErr
    /\ quitCloses = 1
    /\ lastNext = "false" /\ current.Err = UpdateErr

----------------------------------------------------------------------------
(* Generator, Filter, Map, Limit, Slice, Combine: properties *)

\* the j-th value a never-failing Generate produces that passes Test
Passing(j) == IF Test = "even" THEN 2 * j ELSE 2 * j - 1

\* ToSlice has returned
Returned == consumer = "returned"

\* Err() of the chain: Limit, Map and Filter embed the Generator's
ChainErr == GeneratorErr(g)

\* C12: for a Generate that never fails, ToSlice of the chain returns the
\* first Max generated values that pass Test, each converted by Update, in
\* order, and a nil error.
Cex_C12 ==
    (kind = "Chain" /\ genLen = Unending /\ Returned) =>
        /\ got = [j \in 1..limit.Max |-> Itoa(Passing(j))]
        /\ ChainErr = NoErr

\* C13: after a Next() of the Generator, Next() returned true exactly when
\* Generate returned a nil error, and Get() is then the generated value; after
\* Stop, Next() returned false and Err() is nil; after another error e, Next()
\* returned false and Err() is e; Generate is not called after it returned an
\* error.
Cex_C13 ==
    (kind = "Generator" /\ lastNext # "none") =>
        /\ lastNext = "true" <=> g.err = NoErr
        /\ lastNext = "true" => got[Len(got)] = g.val
        /\ g.err = Stop => GeneratorErr(g) = NoErr
        /\ g.err \notin {NoErr, Stop} => GeneratorErr(g) = g.err
        /\ genLen # Unending => g.calls <= genLen + 1

\* the number of elements of an input: an Echo has more than any Slice
InputLen(it) == IF it.type = "Slice" THEN Len(it.Data) ELSE MaxData + 1

\* the length of the shortest input
RECURSIVE Shortest(_)
Shortest(its) ==
    IF Len(its) = 1 THEN InputLen(its[1])
    ELSE LET rest == Shortest(Tail(its))
         IN  IF InputLen(its[1]) < rest THEN InputLen(its[1]) ELSE rest

\* the j-th element of an input
ElementAt(it, j) == IF it.type = "Slice" THEN it.Data[j] ELSE it.Template

\* C14: the values ToSlice has taken from a Combine are, step by step, Join of
\* the inputs' elements at that step; when ToSlice returns there are as many
\* as the shortest input has elements, and the error is nil.
Thm_C14 ==
    kind = "Combine" =>
        /\ Len(got) <= Shortest(Inputs)
        /\ \A j \in 1..Len(got) :
              got[j] = Join([i \in 1..Len(Inputs) |-> ElementAt(Inputs[i], j)])
        /\ Returned => /\ Len(got) = Shortest(Inputs)
                       /\ CombineErr(Iterators) = NoErr

\* ToSlice has returned two values from a Combine of a Slice of two elements
\* and an Echo
Wit_C14 ==
    /\ kind = "Combine" /\ Returned
    /\ Len(Inputs) = 2
    /\ Inputs[1].type = "Slice" /\ Len(Inputs[1].Data) = 2
    /\ Inputs[2].type = "Echo"
    /\ Len(got) = 2

\* C15: the values ToSlice has taken from a Slice are a prefix of its Data;
\* when ToSlice returns they are all of Data, and the error is nil.
Thm_C15 ==
    kind = "Slice" =>
        /\ IsPrefix(got, Inputs[1].Data)
        /\ Returned => /\ got = Inputs[1].Data
                       /\ InputErr(Iterators[1]) = NoErr

\* ToSlice has returned the three elements of a Slice, the first and the last
\* different
Wit_C15 ==
    /\ kind = "Slice" /\ Returned
    /\ Len(Inputs[1].Data) = 3 /\ Len(got) = 3
    /\ got[1] # got[3]

\* the elements of the Slice under the FilterMap that Next has pulled so far
Pulled ==
    SubSeq(Inputs[1].Data, 1,
           Len(Inputs[1].Data) - Len(Iterators[1].Data)
             + (IF Iterators[1].started /\ Iterators[1].Data # <<>> THEN 1 ELSE 0))

\* those of them TestUpdate returns true for, converted
Converted(elems) ==
    LET kept == SelectSeq(elems, LAMBDA e : TestUpdate(e).ok)
    IN  [i \in 1..Len(kept) |-> TestUpdate(kept[i]).a]

\* C21: the values Get() returned after each true Next() of a FilterMap are the
\* converted values of the pulled elements TestUpdate returns true for, the
\* others skipped; after a true Next(), Get() is the converted value of the
\* current element of the source.
Cex_C21 ==
    kind = "FilterMap" =>
        /\ got = Converted(Pulled)
        /\ lastNext = "true" =>
              /\ TestUpdate(InputGet(Iterators[1])).ok
              /\ FilterMapGet(fm) = TestUpdate(InputGet(Iterators[1])).a

----------------------------------------------------------------------------
(* Both iterators *)

\* Err() of the iterator being drained
IterErr ==
    IF kind = "channelIter" THEN item.Err
    ELSE IF kind = "receiveIter" THEN current.Err
    ELSE NoErr

\* Next() has returned false and Err() is not nil
Failed == lastNext = "false" /\ IterErr # NoErr

\* C7: once Next() has returned false with an error in Err(), no step changes
\* the buffered item or Result, Next() does not block or receive again, never
\* returns true, and nothing more is drained.
Thm_C7 ==
    [][Failed => /\ lastNext' = "false"
                 /\ consumer' = "idle"
                 /\ item' = item
                 /\ current' = current
                 /\ got' = got]_vars

\* Next() was called again after the failure, after the caller cancelled and
\* while a generator went on sending
Wit_C7 ==
    /\ Failed
    /\ afterEnd = MaxNextAfterEnd
    /\ item.Err \in Errors
    /\ parentDone /\ ignored
    /\ \E p \in Producers : InSend(p)

====
